---- MODULE Spec2Model ----
(***************************************************************************)
(* A model of the IGMP client element of click-igmp-router:                *)
(* IgmpInputHandler (the join and leave write handlers, push_listen, the   *)
(* inbound push) and the wire format, checksum and code conversions of    *)
(* IgmpMessage.hh.                                                         *)
(***************************************************************************)
EXTENDS Integers, Sequences, FiniteSets, TLC

(***************************************************************************)
(* Bounds of the model.                                                    *)
(***************************************************************************)
\* Ordinary multicast groups 230.1.2.3, 230.1.2.4, ... a control event may name.
NumGroups == 1
\* Unicast sources 10.0.0.5, 10.0.0.6, ... a filter record's source list may hold.
NumSources == 1

(***************************************************************************)
(* IPv4 addresses: the four octets, in network byte order.                 *)
(***************************************************************************)
IPAddress(a, b, c, d) == << a, b, c, d >>

\* The address no argument was parsed into.
NoAddress == IPAddress(0, 0, 0, 0)

all_systems_multicast_address == IPAddress(224, 0, 0, 1)

report_multicast_address == IPAddress(224, 0, 0, 22)

OrdinaryGroups == { IPAddress(230, 1, 2, 3 + i) : i \in 0 .. NumGroups - 1 }

Groups == OrdinaryGroups \cup {all_systems_multicast_address, report_multicast_address}

Sources == { IPAddress(10, 0, 0, 5 + i) : i \in 0 .. NumSources - 1 }

\* Sources of inbound packets: the listed ones and one that no list holds.
PacketSources == Sources \cup { IPAddress(10, 0, 0, 5 + NumSources) }

UnicastDestination == IPAddress(192, 168, 1, 1)

PacketDestinations == Groups \cup {UnicastDestination}

\* 224.0.0.0/4
IsMulticast(a) == a[1] \div 16 = 14

(***************************************************************************)
(* The argument of a write handler: the dotted parts of the TO address as  *)
(* typed, each part its decimal digits; <<>> when the argument is missing. *)
(***************************************************************************)
RECURSIVE Digits(_)
Digits(n) == IF n < 10 THEN << n >> ELSE Digits(n \div 10) \o << n % 10 >>

\* IPAddress::unparse
Unparse(a) == [i \in 1 .. 4 |-> Digits(a[i])]

RECURSIVE Decimal(_)
Decimal(ds) ==
    IF ds = <<>> THEN 0 ELSE Decimal(SubSeq(ds, 1, Len(ds) - 1)) * 10 + ds[Len(ds)]

ValidConfs == { Unparse(g) : g \in Groups }

\* No argument, three parts only, a part above 255, an empty part.
InvalidConfs ==
    { <<>>,
      << <<2, 3, 0>>, <<1>>, <<2>> >>,
      << <<2, 3, 0>>, <<1>>, <<2>>, <<2, 5, 6>> >>,
      << <<2, 3, 0>>, <<>>, <<2>>, <<3>> >> }

Confs == ValidConfs \cup InvalidConfs

\* cp_va_kparse(conf, self, errh, "TO", cpkM, cpIPAddress, &to, cpEnd)
cp_va_kparse(conf) ==
    IF /\ Len(conf) = 4
       /\ \A i \in 1 .. 4 : Len(conf[i]) \in 1 .. 3 /\ Decimal(conf[i]) \in 0 .. 255
    THEN [rc |-> 0,
          to |-> IPAddress(Decimal(conf[1]), Decimal(conf[2]),
                           Decimal(conf[3]), Decimal(conf[4]))]
    ELSE [rc |-> -1, to |-> NoAddress]

(***************************************************************************)
(* Wire format.                                                            *)
(***************************************************************************)
igmp_membership_query_type == 17

igmp_v3_membership_report_type == 34

ModeIsInclude == 1

ModeIsExclude == 2

ChangeToIncludeMode == 3

ChangeToExcludeMode == 4

U16(n) == << (n \div 256) % 256, n % 256 >>

GetU16(data, at) == data[at] * 256 + data[at + 1]

\* An address field: its four bytes as they stand.
GetAddress(data, at) == SubSeq(data, at, at + 3)

\* The 16-bit words of the buffer added up, an odd last byte padded with zero.
RECURSIVE WordSum(_, _)
WordSum(data, at) ==
    IF at > Len(data) THEN 0
    ELSE IF at = Len(data) THEN data[at] * 256
    ELSE data[at] * 256 + data[at + 1] + WordSum(data, at + 2)

RECURSIVE FoldCarries(_)
FoldCarries(s) == IF s < 65536 THEN s ELSE FoldCarries((s % 65536) + (s \div 65536))

\* click_in_cksum: the one's complement of the one's complement sum.
click_in_cksum(data) == 65535 - FoldCarries(WordSum(data, 1))

SetChecksumField(data, c) ==
    [i \in 1 .. Len(data) |-> IF i = 3 THEN c \div 256 ELSE IF i = 4 THEN c % 256 ELSE data[i]]

\* update_igmp_checksum gone wrong: the field not cleared before the sum.
update_igmp_checksum_field_kept(data) == SetChecksumField(data, click_in_cksum(data))

update_igmp_checksum(data) ==
    LET checksum == click_in_cksum(SetChecksumField(data, 0))
    IN  SetChecksumField(data, checksum)

get_igmp_checksum(data) == GetU16(data, 3)

compute_igmp_checksum(data) == get_igmp_checksum(update_igmp_checksum(data))

\* The callers' view of the two functions: the buffer as the call leaves it
\* and the value returned.  update_igmp_checksum writes into the buffer it is
\* given, compute_igmp_checksum into a copy that it deletes.
UpdateChecksumCall(data) ==
    LET updated == update_igmp_checksum(data)
    IN  [data |-> updated, result |-> get_igmp_checksum(updated)]

ComputeChecksumCall(data) ==
    LET data_copy == data
        result == UpdateChecksumCall(data_copy).result
    IN  [data |-> data, result |-> result]

(***************************************************************************)
(* Filter records and the membership filter (IgmpFilter.hh).               *)
(***************************************************************************)
FilterModes == {"INCLUDE", "EXCLUDE"}

IgmpFilterRecord(mode, sources) == [filter_mode |-> mode, source_addresses |-> sources]

FilterRecords == { IgmpFilterRecord(m, ss) : m \in FilterModes, ss \in SUBSET Sources }

\* EXCLUDE {}: receive from every source.
create_igmp_join_record == IgmpFilterRecord("EXCLUDE", {})

\* INCLUDE {}: receive from no source.
create_igmp_leave_record == IgmpFilterRecord("INCLUDE", {})

\* IgmpFilter::listen: the table keeps an entry for the groups listened to; a
\* record that receives from no source removes the group's entry.
listen(table, multicast_address, record) ==
    IF record = create_igmp_leave_record
    THEN [g \in DOMAIN table \ {multicast_address} |-> table[g]]
    ELSE [g \in DOMAIN table \cup {multicast_address} |->
            IF g = multicast_address THEN record ELSE table[g]]

\* The classification query of the filter.
should_accept(table, group, source) ==
    /\ group \in DOMAIN table
    /\ \/ /\ table[group].filter_mode = "EXCLUDE"
          /\ source \notin table[group].source_addresses
       \/ /\ table[group].filter_mode = "INCLUDE"
          /\ source \in table[group].source_addresses

\* The table's entry for a group: <<>> when there is none.
Entry(table, group) == IF group \in DOMAIN table THEN <<table[group]>> ELSE <<>>

(***************************************************************************)
(* Membership reports (IgmpMessageManip.hh).                               *)
(***************************************************************************)
\* Addresses in the order of their 32-bit values.
RECURSIVE AddressLeq(_, _)
AddressLeq(a, b) ==
    \/ a = <<>>
    \/ Head(a) < Head(b)
    \/ Head(a) = Head(b) /\ AddressLeq(Tail(a), Tail(b))

Min(S) == CHOOSE x \in S : \A y \in S : AddressLeq(x, y)

RECURSIVE SourceList(_)
SourceList(S) == IF S = {} THEN <<>> ELSE <<Min(S)>> \o SourceList(S \ {Min(S)})

IgmpV3GroupRecord(multicast_address, record, is_change) ==
    [type |-> IF is_change
              THEN (IF record.filter_mode = "INCLUDE"
                    THEN ChangeToIncludeMode ELSE ChangeToExcludeMode)
              ELSE (IF record.filter_mode = "INCLUDE"
                    THEN ModeIsInclude ELSE ModeIsExclude),
     multicast_address |-> multicast_address,
     source_addresses |-> SourceList(record.source_addresses)]

IgmpV3MembershipReport(group_records) == [group_records |-> group_records]

RECURSIVE Flatten(_)
Flatten(seqs) == IF seqs = <<>> THEN <<>> ELSE Head(seqs) \o Flatten(Tail(seqs))

\* struct IgmpV3GroupRecordHeader, then the record's sources.
GroupRecordBytes(r) ==
    << r.type, 0 >> \o U16(Len(r.source_addresses)) \o r.multicast_address
    \o Flatten([i \in 1 .. Len(r.source_addresses) |-> r.source_addresses[i]])

\* struct IgmpV3MembershipReportHeader, the checksum field still zero.
ReportHeaderBytes(report) ==
    << igmp_v3_membership_report_type, 0, 0, 0, 0, 0 >> \o U16(Len(report.group_records))

\* IgmpV3MembershipReport::get_size: the header and each record with its sources.
RECURSIVE RecordsSize(_)
RecordsSize(group_records) ==
    IF group_records = <<>> THEN 0
    ELSE 8 + 4 * Len(Head(group_records).source_addresses)
         + RecordsSize(Tail(group_records))

ReportSize(report) == 8 + RecordsSize(report.group_records)

\* IgmpV3MembershipReport::write: the header, the group records, the checksum.
ReportBytes(report) ==
    update_igmp_checksum(
        ReportHeaderBytes(report)
        \o Flatten([i \in 1 .. Len(report.group_records) |->
                       GroupRecordBytes(report.group_records[i])]))

\* The reports of one group record the element can build, and the bytes of
\* each, worked out once.
Reports ==
    { IgmpV3MembershipReport(<< IgmpV3GroupRecord(g, r, c) >>) :
          g \in Groups \cup {NoAddress}, r \in FilterRecords, c \in BOOLEAN }

ReportImage == [report \in Reports |-> ReportBytes(report)]

ReportWrite(report) == ReportImage[report]

\* Reading a report back off the wire.
get_igmp_message_type(data) == data[1]

is_igmp_v3_membership_report(data) ==
    get_igmp_message_type(data) = igmp_v3_membership_report_type

ReportRecordCount(data) == GetU16(data, 7)

\* IgmpV3GroupRecordHeader::get_payload_size of the record that starts at `at`.
get_payload_size(data, at) == 4 * (GetU16(data, at + 2) + data[at + 1])

\* The group records of a report from offset `at` on, `count` of them; the
\* reading stops at a record the buffer does not hold whole.
RECURSIVE ReadGroupRecords(_, _, _)
ReadGroupRecords(data, at, count) ==
    IF count = 0 \/ at + 7 > Len(data) \/ at + 7 + get_payload_size(data, at) > Len(data)
    THEN <<>>
    ELSE << [type |-> data[at],
             multicast_address |-> GetAddress(data, at + 4),
             source_addresses |->
                 [i \in 1 .. GetU16(data, at + 2) |-> GetAddress(data, at + 4 + 4 * i)],
             size |-> 8 + get_payload_size(data, at)] >>
         \o ReadGroupRecords(data, at + 8 + get_payload_size(data, at), count - 1)

ReportGroupRecords(data) == ReadGroupRecords(data, 9, ReportRecordCount(data))

(***************************************************************************)
(* IGMP messages off the wire.                                             *)
(***************************************************************************)
\* is_igmp_membership_query gone wrong: the type not looked at.
is_igmp_membership_query_any_type(data) == get_igmp_message_type(data) \in 0 .. 255

is_igmp_membership_query(data) ==
    get_igmp_message_type(data) = igmp_membership_query_type

\* struct IgmpMembershipQueryHeader, then the query's sources, the checksum
\* field still zero.
QueryHeaderBytes(max_resp_code, group_address, flags, query_interval_code, sources) ==
    << igmp_membership_query_type, max_resp_code, 0, 0 >> \o group_address
    \o << flags, query_interval_code >> \o U16(Len(sources))
    \o Flatten(sources)

QueryNumberOfSources(data) == GetU16(data, 11)

\* What a message off the wire is taken for: a query or a report when its
\* bytes hold one whole with the checksum of its bytes, dropped otherwise.
decode(data) ==
    IF Len(data) < 4 THEN "dropped"
    ELSE IF is_igmp_membership_query(data)
    THEN IF Len(data) < 12 THEN "dropped"
         ELSE IF Len(data) < 12 + 4 * QueryNumberOfSources(data) THEN "dropped"
         ELSE IF get_igmp_checksum(data) # compute_igmp_checksum(data) THEN "dropped"
         ELSE "Query"
    ELSE IF is_igmp_v3_membership_report(data)
    THEN IF Len(data) < 8 THEN "dropped"
         ELSE IF Len(ReportGroupRecords(data)) # ReportRecordCount(data) THEN "dropped"
         ELSE IF get_igmp_checksum(data) # compute_igmp_checksum(data) THEN "dropped"
         ELSE "Report"
    ELSE "dropped"

\* Messages as a querier and a host send them: a general query, a query for
\* a group and one for a group and a source, and the reports of a join and
\* of a leave of an ordinary group.
SoundMessages ==
    { update_igmp_checksum(QueryHeaderBytes(100, g, 2, 125, <<>>)) :
          g \in OrdinaryGroups \cup {NoAddress} }
    \cup { update_igmp_checksum(QueryHeaderBytes(100, g, 2, 125, << s >>)) :
              g \in OrdinaryGroups, s \in Sources }
    \cup { ReportWrite(IgmpV3MembershipReport(<< IgmpV3GroupRecord(g, r, TRUE) >>)) :
              g \in OrdinaryGroups,
              r \in {create_igmp_join_record, create_igmp_leave_record} }

\* Types of IGMP messages that are neither a query nor a version 3 report.
OtherTypes == {0, 22}

\* The messages that arrive: sound ones, and ones with a wrong checksum, with
\* another type, or with bytes missing at the end.
WireMessages ==
    SoundMessages
    \cup { SetChecksumField(data, (get_igmp_checksum(data) + 1) % 65536) :
              data \in SoundMessages }
    \cup { update_igmp_checksum([data EXCEPT ![1] = type]) :
              data \in SoundMessages, type \in OtherTypes }
    \cup { update_igmp_checksum(SubSeq(data, 1, Len(data) - cut)) :
              data \in SoundMessages, cut \in {1, 4} }
    \cup { SubSeq(data, 1, size) : data \in SoundMessages, size \in {0, 3} }

\* What each message is taken for, worked out once.
Decoded == [data \in WireMessages |-> decode(data)]

(***************************************************************************)
(* The code of a Max Resp Time or a Query Interval.                        *)
(***************************************************************************)
\* Values up to MaxValue are converted to codes, and the values around
\* those a code stands for.
MaxValue == 300

RECURSIVE Pow2(_)
Pow2(n) == IF n = 0 THEN 1 ELSE 2 * Pow2(n - 1)

BitAnd16(code) == code % 16

\* code & 0x70: the exponent's bits where they stand in the code.
BitAnd112(code) == ((code \div 16) % 8) * 16

BitOr16(mantissa) == IF (mantissa \div 16) % 2 = 1 THEN mantissa ELSE mantissa + 16

\* What a shift of an unsigned int by 32 bits or more, which C++ leaves
\* undefined, comes to: the count taken modulo 32 (a shift instruction that
\* masks its count) or zero (every bit shifted out).
Builds == {"masked", "zero"}

\* x << n on a 32-bit unsigned int.
ShiftLeft(x, n, build) ==
    IF n < 32 THEN (x % Pow2(32 - n)) * Pow2(n)
    ELSE IF build = "masked" THEN (x % Pow2(32 - (n % 32))) * Pow2((n % 32))
    ELSE 0

\* igmp_code_to_value gone wrong: the mantissa's leading one left out.
igmp_code_to_value_no_leading_one(code, build) ==
    IF code < 128
    THEN code
    ELSE LET mantissa == BitAnd16(code)
             exponent == BitAnd112(code)
         IN  ShiftLeft(mantissa, exponent + 3, build)

igmp_code_to_value(code, build) ==
    IF code < 128
    THEN code
    ELSE LET mantissa == BitAnd16(code)
             exponent == BitAnd112(code)
         IN  ShiftLeft(BitOr16(mantissa), exponent + 3, build)

\* The value of every code, worked out once per build.
CodeValue == [build \in Builds |-> [code \in 0 .. 255 |-> igmp_code_to_value(code, build)]]

\* The loop of igmp_value_to_code: it stops at the first code from 128 to 254
\* whose value is the value sought or more, and falls through to 255.
ValueToCodeLoop(value, build) ==
    LET stops == { code \in 128 .. 254 : CodeValue[build][code] >= value }
    IN  IF stops = {} THEN 255
        ELSE LET code == CHOOSE c \in stops : \A d \in stops : c <= d
             IN  IF CodeValue[build][code] = value THEN code ELSE (code - 1) % 256

\* igmp_value_to_code gone wrong: the code above the value returned.
igmp_value_to_code_round_up(value, build) ==
    IF value < 128 THEN value % 256
    ELSE LET code == ValueToCodeLoop(value, build)
         IN  IF code < 255 /\ CodeValue[build][code] # value THEN code + 1 ELSE code

igmp_value_to_code(value, build) ==
    IF value < 128 THEN value % 256 ELSE ValueToCodeLoop(value, build)

\* The values converted: the small ones, and for every code the value it
\* stands for, the one below and the one above.
Values ==
    (0 .. MaxValue)
    \cup UNION { { CodeValue[build][code] - 1, CodeValue[build][code],
                   CodeValue[build][code] + 1 } \cap Nat :
                     build \in Builds, code \in 0 .. 255 }

\* The code of every value, worked out once per build.
ValueCode == [build \in Builds |-> [value \in Values |-> igmp_value_to_code(value, build)]]

(***************************************************************************)
(* The element: its state and its handlers.                                *)
(***************************************************************************)
VARIABLES
    filter,     \* IgmpInputHandler::filter: group -> filter record, an entry per group listened to
    out,        \* what the last event pushed: output port -> the packets, in order
    chatter,    \* what the last event logged with click_chatter
    ret,        \* what the last write handler returned (0 when the last event was none)
    last,       \* the last event: its kind, its arguments, what it met and did
    lastEvent,  \* per group, the last control event that named it
    calc,       \* the conversion or checksum last worked out, aside from the element
    frame,      \* the call of push_listen under way, when it is followed line by line
    clients     \* the tables of the other client elements of the configuration

\* What lies aside from the element and its handlers, taken whole, leave alone.
aside == << calc, frame, clients >>

vars == << filter, out, chatter, ret, last, lastEvent, calc, frame, clients >>

\* The client elements the test script drives; the element followed here is
\* the one that stays in the group when the others leave.
ThisClient == "client32"

OtherClients == {"client21", "client22", "client31"}

Clients == OtherClients \cup {ThisClient}

\* self gone wrong: one table for all the elements.
self_shared(e) == ThisClient

\* IgmpInputHandler *self = (IgmpInputHandler *)e: the element a handler was
\* called on is the one whose filter it works on.
self(e) == e

\* Nothing worked out.
NoCalc == [fn |-> "none"]

\* Output 0: generated IGMP packets.
IgmpPort == 0

\* Output 1: incoming IP packets accepted for the host.
HostPort == 1

\* Output 2: incoming IP packets which were filtered out.
FilteredPort == 2

\* Where traffic that is not multicast leaves the element.
PassThroughPort == 3

Ports == {IgmpPort, HostPort, FilteredPort, PassThroughPort}

NoOutput == [p \in Ports |-> <<>>]

NullPacket == <<>>

\* Packet::make(headroom, 0, packetsize, tailroom): 0 when the allocation fails.
Packet_make(packetsize, alloc_ok) ==
    IF alloc_ok THEN [i \in 1 .. packetsize |-> 0] ELSE NullPacket

\* report.write(packet->data())
WriteReport(packet, report) ==
    LET bytes == ReportWrite(report)
    IN  [i \in 1 .. Len(packet) |-> bytes[i]]

\* No call of push_listen under way, none made yet.
NoFrame ==
    [pc |-> 0, op |-> "none", to |-> NoAddress, record |-> create_igmp_leave_record,
     alloc_ok |-> TRUE, report |-> <<>>, packet |-> NullPacket]

\* The statements of push_listen gone wrong: the report sent first, the table
\* updated last.
push_listen_steps_table_last == << "report", "make", "write", "push", "listen" >>

\* The statements of push_listen in the order they are written.
push_listen_steps == << "listen", "report", "make", "write", "push" >>

\* push_listen gone wrong: the group record built as a current-state record.
push_listen_current_state(table, multicast_address, record, alloc_ok) ==
    LET report == IgmpV3MembershipReport(
                      << IgmpV3GroupRecord(multicast_address, record, FALSE) >>)
        packet == Packet_make(ReportSize(report), alloc_ok)
    IN  IF packet = NullPacket
        THEN [filter |-> listen(table, multicast_address, record),
              out |-> NoOutput,
              chatter |-> << "sending listen request", "cannot make packet!" >>,
              alloc_failed |-> TRUE]
        ELSE [filter |-> listen(table, multicast_address, record),
              out |-> [NoOutput EXCEPT ![IgmpPort] = << WriteReport(packet, report) >>],
              chatter |-> << "sending listen request" >>,
              alloc_failed |-> FALSE]

\* push_listen gone wrong: the record filed under the address the reports go to.
push_listen_wrong_key(table, multicast_address, record, alloc_ok) ==
    LET report == IgmpV3MembershipReport(
                      << IgmpV3GroupRecord(multicast_address, record, TRUE) >>)
        packet == Packet_make(ReportSize(report), alloc_ok)
    IN  IF packet = NullPacket
        THEN [filter |-> listen(table, report_multicast_address, record),
              out |-> NoOutput,
              chatter |-> << "sending listen request", "cannot make packet!" >>,
              alloc_failed |-> TRUE]
        ELSE [filter |-> listen(table, report_multicast_address, record),
              out |-> [NoOutput EXCEPT ![IgmpPort] = << WriteReport(packet, report) >>],
              chatter |-> << "sending listen request" >>,
              alloc_failed |-> FALSE]

\* push_listen gone wrong: the record filed in a table begun afresh.
push_listen_fresh_table(table, multicast_address, record, alloc_ok) ==
    LET report == IgmpV3MembershipReport(
                      << IgmpV3GroupRecord(multicast_address, record, TRUE) >>)
        packet == Packet_make(ReportSize(report), alloc_ok)
        fresh == [g \in {} |-> record]
    IN  IF packet = NullPacket
        THEN [filter |-> listen(fresh, multicast_address, record),
              out |-> NoOutput,
              chatter |-> << "sending listen request", "cannot make packet!" >>,
              alloc_failed |-> TRUE]
        ELSE [filter |-> listen(fresh, multicast_address, record),
              out |-> [NoOutput EXCEPT ![IgmpPort] = << WriteReport(packet, report) >>],
              chatter |-> << "sending listen request" >>,
              alloc_failed |-> FALSE]

\* push_listen gone wrong: the packet made first, the table updated only
\* once there is one.
push_listen_alloc_first(table, multicast_address, record, alloc_ok) ==
    LET report == IgmpV3MembershipReport(
                      << IgmpV3GroupRecord(multicast_address, record, TRUE) >>)
        packet == Packet_make(ReportSize(report), alloc_ok)
    IN  IF packet = NullPacket
        THEN [filter |-> table,
              out |-> NoOutput,
              chatter |-> << "sending listen request", "cannot make packet!" >>,
              alloc_failed |-> TRUE]
        ELSE [filter |-> listen(table, multicast_address, record),
              out |-> [NoOutput EXCEPT ![IgmpPort] = << WriteReport(packet, report) >>],
              chatter |-> << "sending listen request" >>,
              alloc_failed |-> FALSE]

\* The effect of push_listen on the table `table`: the table, the packets
\* pushed, the lines logged and whether the packet could not be made.
push_listen(table, multicast_address, record, alloc_ok) ==
    LET report == IgmpV3MembershipReport(
                      << IgmpV3GroupRecord(multicast_address, record, TRUE) >>)
        packet == Packet_make(ReportSize(report), alloc_ok)
    IN  IF packet = NullPacket
        THEN [filter |-> listen(table, multicast_address, record),
              out |-> NoOutput,
              chatter |-> << "sending listen request", "cannot make packet!" >>,
              alloc_failed |-> TRUE]
        ELSE [filter |-> listen(table, multicast_address, record),
              out |-> [NoOutput EXCEPT ![IgmpPort] = << WriteReport(packet, report) >>],
              chatter |-> << "sending listen request" >>,
              alloc_failed |-> FALSE]

\* The record of an event. `conf` is a write handler's argument, `to`
\* the group a control event named, `record`
\* what it passed to push_listen, `packet` the inbound packet's destination
\* and source; was_listening: the table held an entry for `to` before the
\* event; changed: the event changed the table.
Event(op, conf, to, record, packet, was_listening, changed, alloc_failed) ==
    [op |-> op, conf |-> conf, to |-> to, record |-> record, packet |-> packet,
     was_listening |-> was_listening, changed |-> changed,
     alloc_failed |-> alloc_failed]

\* A control event that reached push_listen: a write handler whose argument
\* parsed to `to`, or a direct call.
Listen(op, conf, to, record, alloc_ok) ==
    LET r == push_listen(filter, to, record, alloc_ok)
    IN  /\ filter' = r.filter
        /\ out' = r.out
        /\ chatter' = (IF op = "update" THEN <<>> ELSE << "IGMP " \o op >>) \o r.chatter
        /\ ret' = 0
        /\ last' = Event(op, conf, to, << record >>, <<>>, to \in DOMAIN filter,
                         r.filter # filter, r.alloc_failed)
        /\ lastEvent' = [g \in Groups |-> IF g = to THEN op ELSE lastEvent[g]]

\* A write handler whose argument did not parse: return -1.
Reject(op, conf) ==
    /\ ret' = -1
    /\ out' = NoOutput
    /\ chatter' = <<>>
    /\ last' = Event(op, conf, NoAddress, <<>>, <<>>, FALSE, FALSE, FALSE)
    /\ UNCHANGED << filter, lastEvent >>

\* join gone wrong: the leave record passed on.
join_as_leave(conf, alloc_ok) ==
    LET parsed == cp_va_kparse(conf)
    IN  IF parsed.rc < 0
        THEN Reject("join", conf)
        ELSE Listen("join", conf, parsed.to, create_igmp_leave_record, alloc_ok)

\* join gone wrong: the result of the parse not looked at.
join_unchecked(conf, alloc_ok) ==
    LET parsed == cp_va_kparse(conf)
    IN  Listen("join", conf, parsed.to, create_igmp_join_record, alloc_ok)

\* IgmpInputHandler::join
join(conf, alloc_ok) ==
    LET parsed == cp_va_kparse(conf)
    IN  IF parsed.rc < 0
        THEN Reject("join", conf)
        ELSE Listen("join", conf, parsed.to, create_igmp_join_record, alloc_ok)

\* leave gone wrong: the join record passed on.
leave_as_join(conf, alloc_ok) ==
    LET parsed == cp_va_kparse(conf)
    IN  IF parsed.rc < 0
        THEN Reject("leave", conf)
        ELSE Listen("leave", conf, parsed.to, create_igmp_join_record, alloc_ok)

\* IgmpInputHandler::leave
leave(conf, alloc_ok) ==
    LET parsed == cp_va_kparse(conf)
    IN  IF parsed.rc < 0
        THEN Reject("leave", conf)
        ELSE Listen("leave", conf, parsed.to, create_igmp_leave_record, alloc_ok)

\* push_listen called with a record of any mode and source list.
update_sources(multicast_address, record, alloc_ok) ==
    Listen("update", <<>>, multicast_address, record, alloc_ok)

\* The output an inbound packet leaves on.
\* classify gone wrong: every packet looked up in the filter.
classify_no_bypass(table, dst, src) ==
    IF should_accept(table, dst, src) THEN HostPort ELSE FilteredPort

classify(table, dst, src) ==
    IF ~IsMulticast(dst) THEN PassThroughPort
    ELSE IF should_accept(table, dst, src) THEN HostPort
    ELSE FilteredPort

\* push gone wrong: a packet to a group makes the element listen to it and
\* report so.
push_learning(dst, src) ==
    LET r == push_listen(filter, dst, create_igmp_join_record, TRUE)
    IN  /\ filter' = IF IsMulticast(dst) THEN r.filter ELSE filter
        /\ out' = [(IF IsMulticast(dst) THEN r.out ELSE NoOutput)
                      EXCEPT ![classify(filter, dst, src)] = << [dst |-> dst, src |-> src] >>]
        /\ chatter' = <<>>
        /\ ret' = 0
        /\ last' = Event("push", <<>>, NoAddress, <<>>, << dst, src >>, FALSE, FALSE, FALSE)
        /\ UNCHANGED lastEvent

\* IgmpInputHandler::push: an inbound IP packet is classified and forwarded.
push(dst, src) ==
    /\ out' = [NoOutput EXCEPT ![classify(filter, dst, src)] = << [dst |-> dst, src |-> src] >>]
    /\ chatter' = <<>>
    /\ ret' = 0
    /\ last' = Event("push", <<>>, NoAddress, <<>>, << dst, src >>, FALSE, FALSE, FALSE)
    /\ UNCHANGED << filter, lastEvent >>

\* The element as constructed.
ElementInit ==
    /\ filter = [g \in {} |-> create_igmp_leave_record]
    /\ out = NoOutput
    /\ chatter = <<>>
    /\ ret = 0
    /\ last = Event("init", <<>>, NoAddress, <<>>, <<>>, FALSE, FALSE, FALSE)
    /\ lastEvent = [g \in Groups |-> "none"]
    /\ frame = NoFrame
    /\ clients = [c \in OtherClients |-> [g \in {} |-> create_igmp_leave_record]]

Init ==
    /\ ElementInit
    /\ calc = NoCalc

Join ==
    /\ \E conf \in Confs, alloc_ok \in BOOLEAN : join(conf, alloc_ok)
    /\ UNCHANGED aside

Leave ==
    /\ \E conf \in Confs, alloc_ok \in BOOLEAN : leave(conf, alloc_ok)
    /\ UNCHANGED aside

\* The groups of explicit source lists are the ordinary ones.
UpdateSources ==
    /\ \E g \in OrdinaryGroups, record \in FilterRecords, alloc_ok \in BOOLEAN :
           update_sources(g, record, alloc_ok)
    /\ UNCHANGED aside

Push ==
    /\ \E dst \in PacketDestinations, src \in PacketSources : push(dst, src)
    /\ UNCHANGED aside

Next == Join \/ Leave \/ UpdateSources \/ Push

Spec == Init /\ [][Next]_vars

(***************************************************************************)
(* push_listen followed statement by statement: a call is entered from a   *)
(* handler, then its statements run one at a time.  The history of whole   *)
(* events is not kept here.                                                *)
(***************************************************************************)
\* A handler past its parse enters push_listen.
Call(op, to, record, alloc_ok) ==
    /\ frame.pc = 0
    /\ frame' = [pc |-> 1, op |-> op, to |-> to, record |-> record,
                 alloc_ok |-> alloc_ok, report |-> <<>>, packet |-> NullPacket]
    /\ out' = NoOutput
    /\ chatter' = (IF op = "update" THEN <<>> ELSE << "IGMP " \o op >>)
    /\ UNCHANGED << filter, ret, last, lastEvent, calc, clients >>

CallJoin ==
    \E to \in Groups, alloc_ok \in BOOLEAN :
        Call("join", to, create_igmp_join_record, alloc_ok)

CallLeave ==
    \E to \in Groups, alloc_ok \in BOOLEAN :
        Call("leave", to, create_igmp_leave_record, alloc_ok)

CallUpdateSources ==
    \E to \in OrdinaryGroups, record \in FilterRecords, alloc_ok \in BOOLEAN :
        Call("update", to, record, alloc_ok)

\* The next statement of push_listen; the call returns after the last one,
\* or when no packet could be made.
Step ==
    /\ frame.pc > 0
    /\ LET step == push_listen_steps[frame.pc]
           made == Packet_make(ReportSize(frame.report[1]), frame.alloc_ok)
           failed == step = "make" /\ made = NullPacket
           returns == failed \/ frame.pc = Len(push_listen_steps)
       IN  /\ filter' = IF step = "listen"
                        THEN listen(filter, frame.to, frame.record)
                        ELSE filter
           /\ chatter' = chatter \o (IF step = "listen" THEN << "sending listen request" >>
                                     ELSE IF failed THEN << "cannot make packet!" >>
                                     ELSE <<>>)
           /\ out' = IF step = "push"
                     THEN [out EXCEPT ![IgmpPort] = Append(@, frame.packet)]
                     ELSE out
           /\ frame' = [frame EXCEPT
                  !.pc = IF returns THEN 0 ELSE @ + 1,
                  !.report = IF step = "report"
                             THEN << IgmpV3MembershipReport(
                                        << IgmpV3GroupRecord(frame.to, frame.record, TRUE) >>) >>
                             ELSE @,
                  !.packet = IF step = "make" THEN made
                             ELSE IF step = "write" THEN WriteReport(@, frame.report[1])
                             ELSE @]
           /\ ret' = IF returns THEN 0 ELSE ret
    /\ UNCHANGED << last, lastEvent, calc, clients >>

StepNext == CallJoin \/ CallLeave \/ CallUpdateSources \/ Step

StepSpec == Init /\ [][StepNext]_vars

(***************************************************************************)
(* The element with IGMP messages arriving off the wire between its        *)
(* control events and inbound packets.                                     *)
(***************************************************************************)
\* A message off the wire: decoded, and dropped with a word in the log when
\* it is malformed.  What a sound query or report leads to is not part of
\* this element.
receive(data) ==
    /\ out' = NoOutput
    /\ chatter' = (IF Decoded[data] = "dropped" THEN << "malformed IGMP message" >> ELSE <<>>)
    /\ ret' = 0
    /\ last' = Event("receive", <<>>, NoAddress, <<>>, data, FALSE, FALSE, FALSE)
    /\ UNCHANGED << filter, lastEvent >>

Receive ==
    /\ \E data \in WireMessages : receive(data)
    /\ UNCHANGED aside

WireNext == Join \/ Leave \/ Push \/ Receive

WireSpec == Init /\ [][WireNext]_vars

(***************************************************************************)
(* The client elements of the configuration side by side: the handlers of  *)
(* each are called, for the group of the test script's join and leave.     *)
(***************************************************************************)
ClientConfs == { Unparse(g) : g \in OrdinaryGroups }

\* The table of every element.
Tables == [c \in Clients |-> IF c = ThisClient THEN filter ELSE clients[c]]

\* The handler `op` called on element e.  The outputs, the return value and
\* the history are those of the element followed; an event of another
\* element is noted as such.
ClientHandler(e, op, conf, record, alloc_ok) ==
    LET parsed == cp_va_kparse(conf)
        owner == self(e)
        table == Tables[owner]
        r == push_listen(table, parsed.to, record, alloc_ok)
    IN  IF parsed.rc < 0
        THEN Reject(op, conf) /\ UNCHANGED clients
        ELSE /\ filter' = IF owner = ThisClient THEN r.filter ELSE filter
             /\ clients' = [c \in OtherClients |-> IF c = owner THEN r.filter ELSE clients[c]]
             /\ out' = IF e = ThisClient THEN r.out ELSE NoOutput
             /\ chatter' = << "IGMP " \o op >> \o r.chatter
             /\ ret' = 0
             /\ last' = Event(IF e = ThisClient THEN op ELSE "other " \o op, conf, parsed.to,
                              << record >>, <<>>, parsed.to \in DOMAIN table,
                              r.filter # table, r.alloc_failed)
             /\ lastEvent' = IF e = ThisClient
                             THEN [g \in Groups |-> IF g = parsed.to THEN op ELSE lastEvent[g]]
                             ELSE lastEvent

ClientJoin ==
    /\ \E e \in Clients, conf \in ClientConfs, alloc_ok \in BOOLEAN :
           ClientHandler(e, "join", conf, create_igmp_join_record, alloc_ok)
    /\ UNCHANGED << calc, frame >>

ClientLeave ==
    /\ \E e \in Clients, conf \in ClientConfs, alloc_ok \in BOOLEAN :
           ClientHandler(e, "leave", conf, create_igmp_leave_record, alloc_ok)
    /\ UNCHANGED << calc, frame >>

ClientNext == ClientJoin \/ ClientLeave \/ Push

ClientSpec == Init /\ [][ClientNext]_vars

(***************************************************************************)
(* The code conversions on their own: a build is chosen, then values and   *)
(* codes are converted, each conversion followed by the one back.          *)
(***************************************************************************)
element == << filter, out, chatter, ret, last, lastEvent, frame, clients >>

CodecInit ==
    /\ ElementInit
    /\ \E build \in Builds : calc = [fn |-> "build", build |-> build, arg |-> 0,
                                      result |-> 0, back |-> 0]

\* value -> code -> value
ValueToCode ==
    /\ \E value \in Values :
           LET code == ValueCode[calc.build][value]
           IN  calc' = [fn |-> "igmp_value_to_code", build |-> calc.build, arg |-> value,
                        result |-> code,
                        back |-> CodeValue[calc.build][code]]
    /\ UNCHANGED element

\* code -> value -> code
CodeToValue ==
    /\ \E code \in 0 .. 255 :
           LET value == CodeValue[calc.build][code]
           IN  calc' = [fn |-> "igmp_code_to_value", build |-> calc.build, arg |-> code,
                        result |-> value,
                        back |-> ValueCode[calc.build][value]]
    /\ UNCHANGED element

CodecNext == ValueToCode \/ CodeToValue

CodecSpec == CodecInit /\ [][CodecNext]_vars

(***************************************************************************)
(* The checksum functions on their own, on buffers of a few bytes.         *)
(***************************************************************************)
\* The longest buffer summed.
MaxSize == 5

\* Bytes that make the sum carry, or not, or cancel.
BufferBytes == {0, 17, 255}

\* Buffers that hold the checksum field at least, of even and odd size.
Buffers == UNION { [1 .. size -> BufferBytes] : size \in 4 .. MaxSize }

\* Values the checksum field may hold when a buffer is summed.
StoredChecksums == {0, 1, 4660, 65535}

ChecksumInit ==
    /\ ElementInit
    /\ calc = NoCalc

\* What a call of update_igmp_checksum(data, size) leaves, and what the
\* verification of the buffer then gives; worked out once per buffer.
UpdateChecksumRun ==
    [data \in Buffers |->
        LET call == UpdateChecksumCall(data)
        IN  [fn |-> "update_igmp_checksum", arg |-> data, data |-> call.data,
             result |-> call.result,
             verify |-> ComputeChecksumCall(call.data).result]]

\* What a call of compute_igmp_checksum(data, size) leaves, and the sum of
\* the buffer once its field is cleared; worked out once per buffer.
ComputeChecksumRun ==
    [data \in Buffers |->
        LET call == ComputeChecksumCall(data)
        IN  [fn |-> "compute_igmp_checksum", arg |-> data, data |-> call.data,
             result |-> call.result,
             verify |-> ComputeChecksumCall(SetChecksumField(data, 0)).result]]

UpdateChecksum ==
    /\ \E data \in Buffers : calc' = UpdateChecksumRun[data]
    /\ UNCHANGED element

ComputeChecksum ==
    /\ \E data \in Buffers : calc' = ComputeChecksumRun[data]
    /\ UNCHANGED element

ChecksumNext == UpdateChecksum \/ ComputeChecksum

ChecksumSpec == ChecksumInit /\ [][ChecksumNext]_vars

(***************************************************************************)
(* What the claims speak of.                                               *)
(***************************************************************************)
\* The last event was the write handler `op` with an argument that parsed.
Handled(op) == last.op = op /\ cp_va_kparse(last.conf).rc = 0

\* The last event was a write handler whose argument did not parse.
Refused == last.op \in {"join", "leave"} /\ cp_va_kparse(last.conf).rc < 0

\* The reports the last event pushed on the IGMP output.
ReportsSent == out[IgmpPort]

\* What a filter record lets through.
RecordAccepts(record, source) ==
    \/ record.filter_mode = "EXCLUDE" /\ source \notin record.source_addresses
    \/ record.filter_mode = "INCLUDE" /\ source \in record.source_addresses

(***************************************************************************)
(* C1. Filter idempotence: a join of a group that was not listened to      *)
(* sends exactly one Membership Report, and a join of a group that is      *)
(* already joined changes no filter state and sends no report, so that     *)
(* join(G); join(G) sends exactly one.                                     *)
(***************************************************************************)
C1_JoinTwiceOneReport ==
    /\ (Handled("join") /\ ~last.was_listening /\ ~last.alloc_failed)
           => Len(ReportsSent) = 1
    /\ (Handled("join") /\ last.was_listening /\ ~last.changed)
           => ReportsSent = <<>>

(***************************************************************************)
(* C2. A leave of a group that is not listened to is a no-op: the group    *)
(* stays without an entry and no packet leaves on the IGMP output.         *)
(***************************************************************************)
C2_LeaveNotListeningSilent ==
    (Handled("leave") /\ ~last.was_listening)
        => /\ last.to \notin DOMAIN filter
           /\ ~last.changed
           /\ ReportsSent = <<>>

(***************************************************************************)
(* C3. No Membership Report sent holds a group record whose multicast      *)
(* address is 224.0.0.1 or 224.0.0.22, whatever address the join or leave  *)
(* named.                                                                  *)
(***************************************************************************)
C3_NoReportOnReserved ==
    \A i \in 1 .. Len(ReportsSent) :
        \A k \in 1 .. Len(ReportGroupRecords(ReportsSent[i])) :
            ReportGroupRecords(ReportsSent[i])[k].multicast_address
                \notin {all_systems_multicast_address, report_multicast_address}

(***************************************************************************)
(* C4. The report of a join or leave that changed the filter holds exactly *)
(* one group record, for the group the event named, with no sources, of    *)
(* type ChangeToExcludeMode (or ModeIsExclude) for a join and              *)
(* ChangeToIncludeMode for a leave, and its checksum field is the checksum *)
(* of its bytes.                                                           *)
(***************************************************************************)
C4_ReportOfStateChange ==
    \A op \in {"join", "leave"} :
        (Handled(op) /\ last.changed /\ ~last.alloc_failed)
            => /\ Len(ReportsSent) = 1
               /\ LET data == ReportsSent[1]
                      records == ReportGroupRecords(data)
                  IN  /\ is_igmp_v3_membership_report(data)
                      /\ ReportRecordCount(data) = 1
                      /\ Len(records) = 1
                      /\ Len(data) = 8 + records[1].size
                      /\ records[1].multicast_address = last.to
                      /\ records[1].source_addresses = <<>>
                      /\ op = "join" =>
                             records[1].type \in {ChangeToExcludeMode, ModeIsExclude}
                      /\ op = "leave" => records[1].type = ChangeToIncludeMode
                      /\ get_igmp_checksum(data) = compute_igmp_checksum(data)

\* A first join of 230.1.2.3 has sent its report.
C4_Witness ==
    /\ Handled("join")
    /\ last.to = IPAddress(230, 1, 2, 3)
    /\ ~last.was_listening
    /\ last.changed
    /\ Len(ReportsSent) = 1

(***************************************************************************)
(* C5. Join and leave are inverse: for a group whose control events were   *)
(* joins and leaves only, every source is accepted if the last of them was *)
(* a join, and every source is rejected, as before any join, if it was a   *)
(* leave or there was none.                                                *)
(***************************************************************************)
C5_JoinLeaveInverse ==
    \A g \in Groups :
        lastEvent[g] \in {"none", "join", "leave"}
            => \A s \in PacketSources :
                   should_accept(filter, g, s) <=> lastEvent[g] = "join"

\* A group that was joined has been left again.
C5_Witness ==
    /\ Handled("leave")
    /\ last.was_listening
    /\ lastEvent[last.to] = "leave"
    /\ \A s \in PacketSources : ~should_accept(filter, last.to, s)

(***************************************************************************)
(* C6. Classification: a source is accepted for a group exactly when the   *)
(* table holds an entry for the group and the entry's record lets the      *)
(* source through; after a join every source is accepted, after an update  *)
(* to INCLUDE {S1} exactly S1 is, and a group without an entry rejects     *)
(* every source.                                                           *)
(***************************************************************************)
C6_Classification ==
    /\ \A g \in Groups, s \in PacketSources :
           should_accept(filter, g, s)
               <=> (g \in DOMAIN filter /\ RecordAccepts(filter[g], s))
    /\ \A g \in Groups :
           g \notin DOMAIN filter
               => \A s \in PacketSources : ~should_accept(filter, g, s)
    /\ Handled("join")
           => \A s \in PacketSources : should_accept(filter, last.to, s)
    /\ last.op \in {"join", "leave", "update"} /\ last.record # <<>>
           => \A s \in PacketSources :
                  should_accept(filter, last.to, s) <=> RecordAccepts(last.record[1], s)
    /\ \A s1 \in Sources :
           (last.op = "update" /\ last.record = << IgmpFilterRecord("INCLUDE", {s1}) >>)
               => \A s \in PacketSources :
                      should_accept(filter, last.to, s) <=> s = s1

\* A group's sources were set to INCLUDE {10.0.0.5}.
C6_Witness ==
    /\ last.op = "update"
    /\ last.record = << IgmpFilterRecord("INCLUDE", {IPAddress(10, 0, 0, 5)}) >>
    /\ should_accept(filter, last.to, IPAddress(10, 0, 0, 5))

C8_GroupIndependence ==
    [][ \A g \in Groups :
            g # last'.to
                => /\ Entry(filter', g) = Entry(filter, g)
                   /\ \A s \in PacketSources :
                          should_accept(filter', g, s) <=> should_accept(filter, g, s)
      ]_vars

\* A control event changed its group while another group was listened to.
C8_Witness ==
    /\ last.op \in {"join", "leave", "update"}
    /\ last.changed
    /\ \E g \in DOMAIN filter : g # last.to

(***************************************************************************)
(* C9. A join or leave whose address does not parse returns -1, leaves the *)
(* filter table as it was and sends no packet.                             *)
(***************************************************************************)
C9_InvalidInputRejected ==
    /\ Refused
           => /\ ret = -1
              /\ ~last.changed
              /\ out = NoOutput
    /\ NoAddress \notin DOMAIN filter
    /\ DOMAIN filter \subseteq Groups

\* A leave with the address 230.1.2.256 was refused with a group listened to.
C9_Witness ==
    /\ last.op = "leave"
    /\ last.conf = << <<2, 3, 0>>, <<1>>, <<2>>, <<2, 5, 6>> >>
    /\ ret = -1
    /\ filter # << >>

(***************************************************************************)
(* C10. When the packet of a report cannot be allocated, the failure is    *)
(* logged, no report is sent, the filter table holds the event's record    *)
(* all the same, and the events that follow are handled as ever: the       *)
(* handler returns 0, a later control event sends its report and a later   *)
(* inbound packet is forwarded.                                            *)
(***************************************************************************)
C10_AllocationFailureState ==
    last.alloc_failed
        => /\ out = NoOutput
           /\ chatter[Len(chatter)] = "cannot make packet!"
           /\ ret = 0
           /\ Entry(filter, last.to) =
                  (IF last.record[1] = create_igmp_leave_record
                   THEN <<>> ELSE << last.record[1] >>)

C10_AllocationFailureStep ==
    last.alloc_failed
        => /\ (last'.op \in {"join", "leave", "update"} /\ last'.record # <<>>)
                  => /\ filter' = listen(filter, last'.to, last'.record[1])
                     /\ ~last'.alloc_failed => Len(out'[IgmpPort]) = 1
           /\ last'.op = "push"
                  => \E p \in Ports \ {IgmpPort} : Len(out'[p]) = 1

C17_InboundReadOnly ==
    [][ /\ last'.op = "push" => (filter' = filter /\ out'[IgmpPort] = <<>>)
        /\ filter' # filter => last'.op \in {"join", "leave", "update"} ]_vars

\* A packet to a group came while the table held entries, and was filtered out.
C17_Witness ==
    /\ last.op = "push"
    /\ IsMulticast(last.packet[1])
    /\ DOMAIN filter # {}
    /\ Len(out[FilteredPort]) = 1

(***************************************************************************)
(* Malformed messages.                                                     *)
(***************************************************************************)
\* The checksum field does not hold the checksum of the bytes.
BadChecksum(data) ==
    data[3] * 256 + data[4] # click_in_cksum([data EXCEPT ![3] = 0, ![4] = 0])

\* The type byte is neither 0x11 nor 0x22.
BadType(data) ==
    data[1] \notin {igmp_membership_query_type, igmp_v3_membership_report_type}

\* The bytes that the group records of a report take from offset `at` on,
\* going by the counts each record holds; past the buffer once a record's
\* header is not held whole.
RECURSIVE RecordsEnd(_, _, _)
RecordsEnd(data, at, count) ==
    IF count = 0 THEN at - 1
    ELSE IF at + 7 > Len(data) THEN Len(data) + 1
    ELSE RecordsEnd(data, at + 8 + 4 * (data[at + 1] + data[at + 2] * 256 + data[at + 3]),
                    count - 1)

\* The buffer ends before the message does.
Truncated(data) ==
    \/ Len(data) < 8
    \/ /\ data[1] = igmp_membership_query_type
       /\ \/ Len(data) < 12
          \/ Len(data) < 12 + 4 * (data[11] * 256 + data[12])
    \/ /\ data[1] = igmp_v3_membership_report_type
       /\ RecordsEnd(data, 9, data[7] * 256 + data[8]) > Len(data)

Malformed(data) == Truncated(data) \/ BadType(data) \/ BadChecksum(data)

C16_ClientIsolationState ==
    \A g \in OrdinaryGroups :
        lastEvent[g] = "join"
            => \A s \in PacketSources : should_accept(filter, g, s)

C16_ClientIsolationStep ==
    /\ last'.op \in {"other join", "other leave"} => filter' = filter
    /\ last'.op \in {"join", "leave", "push"} => clients' = clients

C16_ClientIsolation ==
    [] C16_ClientIsolationState /\ [][C16_ClientIsolationStep]_vars

\* The last of the other elements listening to 230.1.2.3 has left it, and this
\* element, which joined it, accepts it still.
C16_Witness ==
    /\ last.op = "other leave"
    /\ last.to = IPAddress(230, 1, 2, 3)
    /\ last.was_listening
    /\ \A c \in OtherClients : last.to \notin DOMAIN clients[c]
    /\ lastEvent[last.to] = "join"
    /\ \A s \in PacketSources : should_accept(filter, last.to, s)

(***************************************************************************)
(* The order of the statements of push_listen.                             *)
(***************************************************************************)
\* The filter state a group record of a report announces.
Announced(group_record) ==
    IgmpFilterRecord(
        IF group_record.type \in {ModeIsInclude, ChangeToIncludeMode}
        THEN "INCLUDE" ELSE "EXCLUDE",
        { group_record.source_addresses[i] : i \in DOMAIN group_record.source_addresses })

\* The entry a table holds for a group whose record was applied.
Applied(record) == IF record = create_igmp_leave_record THEN <<>> ELSE << record >>

\* C19: push_listen applies the record to the table before it builds and
\* pushes the report: once the report of a call is built, and whenever a
\* report is on the output of generated IGMP packets, the table holds for the
\* group what the report announces; a call puts at most one report on that
\* output, of one group record, for the group the call was made for.
C19_FilterBeforeReport ==
    /\ Len(out[IgmpPort]) <= 1
    /\ (frame.report # <<>> \/ frame.packet # NullPacket)
           => Entry(filter, frame.to) = Applied(frame.record)
    /\ out[IgmpPort] # <<>>
           => LET records == ReportGroupRecords(out[IgmpPort][1])
              IN  /\ Len(records) = 1
                  /\ records[1].multicast_address = frame.to
                  /\ Entry(filter, frame.to) = Applied(Announced(records[1]))

\* The report of an update of 230.1.2.3 to INCLUDE {10.0.0.5} is on the output.
C19_Witness ==
    /\ frame.op = "update"
    /\ frame.to = IPAddress(230, 1, 2, 3)
    /\ frame.record = IgmpFilterRecord("INCLUDE", {IPAddress(10, 0, 0, 5)})
    /\ Len(out[IgmpPort]) = 1
    /\ Entry(filter, frame.to) = << frame.record >>

(***************************************************************************)
(* The code conversions.                                                   *)
(***************************************************************************)
\* A value some code stands for.
Representable(value, build) ==
    value < 128 \/ \E code \in 0 .. 255 : CodeValue[build][code] = value

\* C11: converting a value to its code and back gives a value that is not
\* above the one started from, and the very same value when some code stands
\* for it; converting a code's value to a code gives a code of the same value.
C11_RoundTrip ==
    /\ calc.fn = "igmp_value_to_code" =>
          /\ calc.back <= calc.arg
          /\ Representable(calc.arg, calc.build) => calc.back = calc.arg
    /\ calc.fn = "igmp_code_to_value" =>
          CodeValue[calc.build][calc.back] = calc.result

\* A value between those of two codes has been rounded down.
C11_Witness ==
    /\ calc.fn = "igmp_value_to_code"
    /\ calc.arg >= 128
    /\ calc.result >= 128
    /\ calc.back < calc.arg

\* C12: a code below 128 is its own value; a code of 128 or more has the
\* value (mantissa | 0x10) << (exponent + 3), the exponent being the number
\* from 0 to 7 in bits 4 to 6, a value from 128 to 31744.
C12_CodeToValue ==
    calc.fn = "igmp_code_to_value" =>
        IF calc.arg < 128
        THEN calc.result = calc.arg
        ELSE /\ calc.result = BitOr16(calc.arg % 16) * Pow2(((calc.arg \div 16) % 8) + 3)
             /\ calc.result \in 128 .. 31744


\* C18: igmp_value_to_code never gives a greater value a lesser code; for a
\* value of 128 or more it gives a code of 128 or more whose value is the
\* greatest one, among those the codes stand for, that is not above the value;
\* and it gives 255 only when no code from 128 to 254 has the value or more.
C18_RoundsDown ==
    calc.fn = "igmp_value_to_code" =>
        /\ \A lesser \in Values :
              lesser <= calc.arg => ValueCode[calc.build][lesser] <= calc.result
        /\ calc.arg >= 128 =>
              /\ calc.result >= 128
              /\ calc.back <= calc.arg
              /\ \A code \in 0 .. 255 :
                    CodeValue[calc.build][code] <= calc.arg =>
                        CodeValue[calc.build][code] <= calc.back
              /\ calc.result = 255 =>
                    \A code \in 128 .. 254 : CodeValue[calc.build][code] < calc.arg


(***************************************************************************)
(* The checksum.                                                           *)
(***************************************************************************)
\* C13: after update_igmp_checksum the field of the buffer holds what
\* compute_igmp_checksum gives for that buffer; what compute_igmp_checksum
\* gives is the sum over the buffer with the field zeroed, whatever the field
\* holds, and the buffer it is given is left as it was.
C13_ChecksumRoundTrip ==
    /\ calc.fn = "update_igmp_checksum" =>
          /\ get_igmp_checksum(calc.data) = calc.verify
          /\ calc.result = calc.verify
    /\ calc.fn = "compute_igmp_checksum" =>
          /\ calc.result = click_in_cksum(SetChecksumField(calc.arg, 0))
          /\ \A stored \in StoredChecksums :
                ComputeChecksumCall(SetChecksumField(calc.arg, stored)).result = calc.result
          /\ calc.result = calc.verify
          /\ calc.data = calc.arg

\* A buffer of odd size whose field held something else has been updated.
C13_Witness ==
    /\ calc.fn = "update_igmp_checksum"
    /\ Len(calc.arg) % 2 = 1
    /\ get_igmp_checksum(calc.arg) # 0
    /\ calc.data # calc.arg
    /\ get_igmp_checksum(calc.data) = calc.verify

====
